---- MODULE Spec2Model ----
(***************************************************************************)
(* A model of the graphrag-local-ollama helper scripts:                    *)
(*   src/streamlit_app.py  - the Streamlit explorer (query pane,           *)
(*                           visualization pane, three memoized functions) *)
(*   src/check_graphml.py  - the GraphML artifact locator and its CLI      *)
(*                                                                         *)
(* Text is modelled as a sequence of tokens (a token is a run of           *)
(* characters); whitespace tokens are the members of Whitespace.           *)
(***************************************************************************)
EXTENDS Integers, Sequences, FiniteSets, TLC

VARIABLES
    \* ---- run_graphrag_query applied to one process outcome
    proc,              \* the outcome of the external process: returncode, stdout, stderr
    answer,            \* what run_graphrag_query returned for it (or NotRun)
    \* ---- the sidebar configuration (module-level globals of streamlit_app.py)
    root_dir,
    community_level,
    response_type,
    \* ---- the query pane of one running session
    engine,            \* the external engine's state: its version and exit status
    query_cache,       \* st.cache_data store of run_graphrag_query, keyed <<query, method>>
    stored_under,      \* history: the argv of the invocation that produced each entry
    response,          \* what the query pane displays in the current script run
    last_submit,       \* history: the last Submit Query click and how it was served
    run_parity,        \* distinguishes one Submit Query click from the next
    \* ---- visualize_graph applied to one path
    render_in,         \* the path given and the file it names
    render_out,        \* what visualize_graph did with it (or NotRendered)
    \* ---- find_latest_graphml applied to one directory tree
    tree,              \* root_dir/output on disk
    latest,            \* what find_latest_graphml returned for it (or NotLooked)
    \* ---- check_graphml.py on the same kind of tree
    tz,                \* the local time zone of the machine
    found,             \* what find_graphml_files returned to the script (or NotSearched)
    cli,               \* what a run of the script printed and exited with (or NotStarted)
    \* ---- the visualization pane of one running session
    fs,                \* the tree on disk under each root directory
    locate_cache,      \* st.cache_data store of find_latest_graphml (no arguments: one entry)
    located_under,     \* history: the root directory the entry was computed for
    viz_cache,         \* st.cache_data store of visualize_graph, keyed by path
    session_state,     \* st.session_state['graphml_path']
    pane,              \* what the visualization pane did in the current script run
    last_load          \* history: the last Load/Refresh Graph click and how it was served

qexec_vars == <<proc, answer>>
config_vars == <<root_dir, community_level, response_type>>
qpane_vars == <<engine, query_cache, stored_under, response, last_submit, run_parity>>
render_vars == <<render_in, render_out>>
latest_vars == <<tree, latest>>
locator_vars == <<tz, found, cli>>
vpane_vars ==
    <<fs, locate_cache, located_under, viz_cache, session_state, pane, last_load>>
vars ==
    <<qexec_vars, config_vars, qpane_vars, render_vars, latest_vars, locator_vars,
      vpane_vars>>

----------------------------------------------------------------------------
(* Bounds of the model *)

\* longest stdout / stderr text, in tokens
MaxText == 2
\* how many times the external engine's state changes in one session
MaxEngineChanges == 1
\* most nodes and most edges of a graph given to the renderer
MaxNodes == 3
MaxEdges == 2
\* most entries of root/output, most files of an artifacts folder, and the
\* latest modification time (in clock ticks)
MaxDirs == 2
MaxFiles == 2
MaxMtime == 2
\* clock ticks in one second: st_mtime is finer than the formatted time
TicksPerSecond == 2
\* how many times the external indexer writes a new output folder under a root
MaxIndexRuns == 2

----------------------------------------------------------------------------
(* Text *)

Whitespace == {" ", "\n"}

RECURSIVE lstrip(_)
lstrip(s) ==
    IF s # <<>> /\ Head(s) \in Whitespace THEN lstrip(Tail(s)) ELSE s

RECURSIVE rstrip(_)
rstrip(s) ==
    IF s # <<>> /\ s[Len(s)] \in Whitespace
    THEN rstrip(SubSeq(s, 1, Len(s) - 1))
    ELSE s

\* str.strip(): leading and trailing whitespace removed
strip(s) == rstrip(lstrip(s))

TextsOver(tokens, n) == UNION {[1..k -> tokens] : k \in 0..n}

----------------------------------------------------------------------------
(* run_graphrag_query, lines 30-45 *)

NoResultsMessage == <<"The query completed but returned no results.">>
ErrorMarker == <<"Error: ">>

\* subprocess.run(..., capture_output=True, text=True, check=True): with
\* check=True a non-zero return code raises CalledProcessError carrying the
\* captured streams; otherwise the completed process is returned.
subprocess_run(p) ==
    IF p.returncode # 0
    THEN [raised |-> "CalledProcessError", stdout |-> p.stdout, stderr |-> p.stderr]
    ELSE [raised |-> "none", stdout |-> p.stdout, stderr |-> p.stderr]

\* A mutant: the stdout test without strip().
run_graphrag_query_nostrip(p) ==
    LET result == subprocess_run(p) IN
    IF result.raised = "CalledProcessError"
    THEN [raised |-> "none", text |-> ErrorMarker \o result.stderr]
    ELSE IF result.stdout = <<>>
         THEN [raised |-> "none", text |-> NoResultsMessage]
         ELSE [raised |-> "none", text |-> result.stdout]

\* The body of run_graphrag_query on a cache miss, given what the external
\* process did.  The value is the returned text, or the exception that left
\* the function.
run_graphrag_query(p) ==
    LET result == subprocess_run(p) IN
    IF result.raised = "CalledProcessError"
    THEN [raised |-> "none", text |-> ErrorMarker \o result.stderr]
    ELSE IF result.raised # "none"
         THEN [raised |-> result.raised, text |-> <<>>]
         ELSE IF strip(result.stdout) = <<>>
              THEN [raised |-> "none", text |-> NoResultsMessage]
              ELSE [raised |-> "none", text |-> result.stdout]

ReturnCodes == {-9, 0, 1, 2}
StdoutTokens == {" ", "\n", "answer"}
StderrTokens == {"timeout", "\n"}
Outcomes ==
    [returncode : ReturnCodes,
     stdout : TextsOver(StdoutTokens, MaxText),
     stderr : TextsOver(StderrTokens, MaxText)]

NotRun == [raised |-> "not run", text |-> <<>>]

QExecInit ==
    /\ proc \in Outcomes
    /\ answer = NotRun

QExecIdle ==
    /\ proc = [returncode |-> 0, stdout |-> <<>>, stderr |-> <<>>]
    /\ answer = NotRun

\* One fresh invocation of run_graphrag_query.
RunQuery ==
    /\ answer = NotRun
    /\ answer' = run_graphrag_query(proc)
    /\ UNCHANGED proc

----------------------------------------------------------------------------
(* The directory tree root/output/<timestamp-dir>/artifacts/<file> *)

\* A file name is its stem and its extension.
SummarizedGraph == [stem |-> "summarized_graph", ext |-> "graphml"]
FileNames ==
    {SummarizedGraph,
     [stem |-> "entity_graph", ext |-> "graphml"],
     [stem |-> "clustered_graph", ext |-> "graphml"],
     [stem |-> "stats", ext |-> "json"]}

\* Path.glob("*.graphml") keeps the names that end in .graphml
MatchesGraphml(name) == name.ext = "graphml"

NoArtifacts == [exists |-> FALSE, files |-> <<>>]
AbsentOutput == [kind |-> "absent", entries |-> <<>>]

\* The listings of a folder: its files in the order the OS enumerates them.
Listings(files) ==
    {l \in UNION {[1..k -> files] : k \in 0..MaxFiles} :
        \A a, b \in DOMAIN l : a # b => l[a].name # l[b].name}

\* root/output is absent, a plain file, or a directory whose entries are
\* given in iterdir() order.  An entry is a timestamp directory (with or
\* without an artifacts folder) or a plain file.
IsTree(t, entries) ==
    \/ t = AbsentOutput
    \/ t = [kind |-> "file", entries |-> <<>>]
    \/ \E k \in 0..MaxDirs : \E e \in [1..k -> entries] :
           t = [kind |-> "dir", entries |-> e]

\* [d for d in output_dir.iterdir() if d.is_dir()], as positions of the listing
timestamp_dirs(output) ==
    SelectSeq([i \in DOMAIN output.entries |-> i], LAMBDA i : output.entries[i].is_dir)

\* A mutant: the oldest timestamp directory is taken instead of the latest.
max_by_mtime_oldest(output, dirs, k, best) ==
    CHOOSE d \in {dirs[i] : i \in DOMAIN dirs} :
        \A i \in DOMAIN dirs : output.entries[d].mtime <= output.entries[dirs[i]].mtime

\* max(timestamp_dirs, key=lambda d: d.stat().st_mtime): the first entry, in
\* iteration order, that no other exceeds.
RECURSIVE max_by_mtime(_, _, _, _)
max_by_mtime(output, dirs, k, best) ==
    IF k > Len(dirs) THEN best
    ELSE max_by_mtime(output, dirs, k + 1,
                      IF output.entries[dirs[k]].mtime > output.entries[best].mtime
                      THEN dirs[k] ELSE best)

\* list(artifacts_dir.glob("*.graphml"))
glob_graphml(artifacts) ==
    SelectSeq(artifacts.files, LAMBDA f : MatchesGraphml(f.name))

\* A path root/output/<ts>/artifacts/<name>; NoPath stands for None.
NoPath == [root |-> "", ts |-> 0, name |-> [stem |-> "", ext |-> ""]]

----------------------------------------------------------------------------
(* visualize_graph, lines 75-165 *)

\* A graph as nx.read_graphml returns it: the nodes in enumeration order,
\* each with its 'community' attribute (NoAttr when the node has none), and
\* the edges in enumeration order, as pairs of node positions.
NoAttr == "<no community attribute>"
Communities == {"c1", "c2"}
NullGraph == [nodes |-> <<>>, edges |-> <<>>]

NodePairs(n) == {<<i, j>> : i \in 1..n, j \in 1..n} \ {<<i, i>> : i \in 1..n}
EdgeLists(n) ==
    {e \in UNION {[1..k -> {p \in NodePairs(n) : p[1] < p[2]}] : k \in 0..MaxEdges} :
        \A a, b \in DOMAIN e : a # b => e[a] # e[b]}
Graphs ==
    UNION {[nodes : [1..n -> Communities \cup {NoAttr}], edges : EdgeLists(n)] :
              n \in 0..MaxNodes}

\* graph.degree(node)
degree(graph, i) ==
    Cardinality({k \in DOMAIN graph.edges : i \in {graph.edges[k][1], graph.edges[k][2]}})

\* nx.spring_layout(graph, dim=3, seed=42, k=0.5): one coordinate per node
\* and axis; the layout is deterministic, the numbers are left symbolic.
pos(i, axis) == [axis |-> axis, node |-> i]
None == [axis |-> "None", node |-> 0]

RECURSIVE edge_coords(_, _, _)
edge_coords(graph, axis, k) ==
    IF k > Len(graph.edges) THEN <<>>
    ELSE <<pos(graph.edges[k][1], axis), pos(graph.edges[k][2], axis), None>>
             \o edge_coords(graph, axis, k + 1)

SeqMax(s) == CHOOSE m \in {s[i] : i \in DOMAIN s} : \A i \in DOMAIN s : s[i] <= m
SeqMin(s) == CHOOSE m \in {s[i] : i \in DOMAIN s} : \A i \in DOMAIN s : m <= s[i]

\* lines 114-116: colours scaled to [0,1] when there is a range to scale by;
\* a colour is the fraction num/den.
normalize(node_colors) ==
    IF Len(node_colors) > 0 /\ SeqMax(node_colors) # SeqMin(node_colors)
    THEN [i \in DOMAIN node_colors |->
             [num |-> node_colors[i] - SeqMin(node_colors),
              den |-> SeqMax(node_colors) - SeqMin(node_colors)]]
    ELSE [i \in DOMAIN node_colors |-> [num |-> node_colors[i], den |-> 1]]

\* line 103: the distinct community values of the graph
communities_of(graph) ==
    {graph.nodes[i] : i \in DOMAIN graph.nodes} \ {NoAttr}

\* The orders in which list(set(...)) may enumerate a set of values.
Enumerations(S) ==
    {o \in [1..Cardinality(S) -> S] : \A v \in S : \E i \in DOMAIN o : o[i] = v}

\* line 104: community_to_int = {c: i for i, c in enumerate(communities)}
community_to_int(communities, c) ==
    (CHOOSE i \in DOMAIN communities : communities[i] = c) - 1

\* line 105: community_to_int.get(graph.nodes[node].get('community', 0), 0)
community_color(graph, communities, i) ==
    IF graph.nodes[i] = NoAttr
    THEN 0
    ELSE community_to_int(communities, graph.nodes[i])

NoFigure == [colorbar_title |-> "", node_colors |-> <<>>, community_to_int |-> <<>>,
             node_sizes |-> <<>>, x_nodes |-> <<>>, y_nodes |-> <<>>, z_nodes |-> <<>>,
             x_edges |-> <<>>, y_edges |-> <<>>, z_edges |-> <<>>]

figure(graph, title, colors, communities) ==
    [colorbar_title |-> title,
     node_colors |-> normalize(colors),
     community_to_int |-> communities,
     node_sizes |-> [i \in DOMAIN graph.nodes |-> 5 + 3 * degree(graph, i)],
     x_nodes |-> [i \in DOMAIN graph.nodes |-> pos(i, "x")],
     y_nodes |-> [i \in DOMAIN graph.nodes |-> pos(i, "y")],
     z_nodes |-> [i \in DOMAIN graph.nodes |-> pos(i, "z")],
     x_edges |-> edge_coords(graph, "x", 1),
     y_edges |-> edge_coords(graph, "y", 1),
     z_edges |-> edge_coords(graph, "z", 1)]

\* The body of visualize_graph on a cache miss.  `file` is what the path
\* names on disk (whether it exists, and the graph it holds); `communities`
\* is the order in which line 103 enumerates the community values.  The
\* value says whether the function returned None, returned a figure or
\* was left by an exception.
visualize_graph(graphml_path, file, communities) ==
    IF graphml_path = NoPath \/ ~file.exists
    THEN [kind |-> "none", exc |-> "", fig |-> NoFigure]
    ELSE LET graph == file.graph IN
         \* line 101: next(iter(graph.nodes(data=True))) on a graph with no node
         IF Len(graph.nodes) = 0
         THEN [kind |-> "raised", exc |-> "StopIteration", fig |-> NoFigure]
         ELSE IF graph.nodes[1] # NoAttr
              THEN [kind |-> "figure", exc |-> "",
                    fig |-> figure(graph, "Community",
                                   [i \in DOMAIN graph.nodes |->
                                       community_color(graph, communities, i)],
                                   communities)]
              ELSE [kind |-> "figure", exc |-> "",
                    fig |-> figure(graph, "Node Degree",
                                   [i \in DOMAIN graph.nodes |-> degree(graph, i)],
                                   <<>>)]

NotRendered == [kind |-> "not run", exc |-> "", fig |-> NoFigure]
MissingFile == [exists |-> FALSE, graph |-> NullGraph]

SamplePath == [root |-> "./ragtest", ts |-> 1,
               name |-> [stem |-> "summarized_graph", ext |-> "graphml"]]
RenderInputs ==
    {[path |-> NoPath, file |-> MissingFile]}
        \cup [path : {SamplePath},
              file : {MissingFile} \cup [exists : {TRUE}, graph : Graphs]]

RenderInit ==
    /\ render_in \in RenderInputs
    /\ render_out = NotRendered

RenderIdle ==
    /\ render_in = [path |-> NoPath, file |-> MissingFile]
    /\ render_out = NotRendered

\* One fresh call of visualize_graph.
Render ==
    /\ render_out = NotRendered
    /\ \E communities \in Enumerations(communities_of(render_in.file.graph)) :
           render_out' = visualize_graph(render_in.path, render_in.file, communities)
    /\ UNCHANGED render_in

----------------------------------------------------------------------------
(* find_latest_graphml, lines 48-72 *)

latest_dir_of(output, dirs) == max_by_mtime(output, dirs, 2, dirs[1])

\* The body of find_latest_graphml on a cache miss, given the value of the
\* global root_dir and root_dir/output on disk.
find_latest_graphml(root, output) ==
    IF output.kind = "absent"
    THEN [kind |-> "none", exc |-> "", path |-> NoPath]
    ELSE IF output.kind # "dir"
    THEN [kind |-> "raised", exc |-> "NotADirectoryError", path |-> NoPath]
    ELSE LET dirs == timestamp_dirs(output) IN
         IF dirs = <<>>
         THEN [kind |-> "none", exc |-> "", path |-> NoPath]
         ELSE LET latest_dir == latest_dir_of(output, dirs)
                  artifacts_dir == output.entries[latest_dir].artifacts
                  graphml_files == glob_graphml(artifacts_dir)
              IN  IF /\ artifacts_dir.exists
                     /\ \E i \in DOMAIN artifacts_dir.files :
                            artifacts_dir.files[i].name = SummarizedGraph
                  THEN [kind |-> "path", exc |-> "",
                        path |-> [root |-> root, ts |-> latest_dir,
                                  name |-> SummarizedGraph]]
                  ELSE IF artifacts_dir.exists /\ graphml_files # <<>>
                       THEN [kind |-> "path", exc |-> "",
                             path |-> [root |-> root, ts |-> latest_dir,
                                       name |-> graphml_files[1].name]]
                       ELSE [kind |-> "none", exc |-> "", path |-> NoPath]

\* The trees find_latest_graphml is tried on: the timestamp directories'
\* modification times vary, the files are only names.
LatestFiles == [name : FileNames, mtime : {0}, size : {0}]
LatestEntries ==
    [is_dir : {TRUE}, mtime : 1..MaxMtime,
     artifacts : {NoArtifacts} \cup [exists : {TRUE}, files : Listings(LatestFiles)]]
        \cup {[is_dir |-> FALSE, mtime |-> 1, artifacts |-> NoArtifacts]}

NotLooked == [kind |-> "not run", exc |-> "", path |-> NoPath]

LatestInit ==
    /\ IsTree(tree, LatestEntries)
    /\ latest = NotLooked

LatestIdle ==
    /\ tree = AbsentOutput
    /\ latest = NotLooked

\* One fresh call of find_latest_graphml.
FindLatest ==
    /\ latest = NotLooked
    /\ latest' = find_latest_graphml(root_dir, tree)
    /\ UNCHANGED tree

----------------------------------------------------------------------------
(* find_graphml_files, src/check_graphml.py lines 10-41 *)

\* The local time zone: the UTC offset (in seconds) before and after one
\* transition.  A zone without daylight saving has one offset throughout;
\* in a zone with it the offset drops when the clocks are set back.
FixedZone == [transition |-> 0, before |-> 0, after |-> 0]
FallBackZone == [transition |-> 1, before |-> 2, after |-> 0]
TimeZones == {FixedZone, FallBackZone}

utcoffset(zone, second) ==
    IF second < zone.transition THEN zone.before ELSE zone.after

\* datetime.datetime.fromtimestamp(st_mtime): the local wall-clock time, as
\* seconds on the local calendar (the fraction of the second is kept apart).
fromtimestamp(mtime, zone) ==
    [second |-> (mtime \div TicksPerSecond) + utcoffset(zone, mtime \div TicksPerSecond),
     tick |-> mtime % TicksPerSecond]

\* strftime("%Y-%m-%d %H:%M:%S"): the fraction is dropped.  The text is
\* fixed-width and most-significant-first, so comparing two of them as
\* strings is comparing their local seconds; the text is modelled by that
\* number.
strftime(dt) == dt.second

file_record(ts, file, zone) ==
    [path |-> [ts |-> ts, name |-> file.name],
     timestamp_dir |-> ts,
     modified |-> strftime(fromtimestamp(file.mtime, zone)),
     size_kb |-> [num |-> file.size, den |-> 1024]]

\* lines 27-39: the records of the timestamp directories dirs[k..], in
\* discovery order
RECURSIVE collect(_, _, _, _)
collect(output, dirs, k, zone) ==
    IF k > Len(dirs) THEN <<>>
    ELSE LET ts_dir == dirs[k]
             artifacts_dir == output.entries[ts_dir].artifacts
             files == IF artifacts_dir.exists THEN glob_graphml(artifacts_dir) ELSE <<>>
         IN  [i \in DOMAIN files |-> file_record(ts_dir, files[i], zone)]
                 \o collect(output, dirs, k + 1, zone)

\* x put behind every record whose key is not smaller: descending and stable
insert_sorted(sorted, x) ==
    LET n == Cardinality({i \in DOMAIN sorted : sorted[i].modified >= x.modified})
    IN  SubSeq(sorted, 1, n) \o <<x>> \o SubSeq(sorted, n + 1, Len(sorted))

\* sorted(graphml_files, key=lambda x: x["modified"], reverse=True): the
\* sort is stable, also under reverse=True
RECURSIVE sorted_by_modified(_, _)
sorted_by_modified(records, k) ==
    IF k = 0 THEN <<>>
    ELSE insert_sorted(sorted_by_modified(records, k - 1), records[k])

Line(text) == [text |-> text]

\* A mutant: the test that root/output exists is left out.
find_graphml_files_unchecked(output, zone) ==
    IF output.kind # "dir"
    THEN [raised |-> IF output.kind = "absent" THEN "FileNotFoundError"
                     ELSE "NotADirectoryError",
          files |-> <<>>,
          printed |-> <<Line("Checking output directory: ")>>]
    ELSE LET records == collect(output, timestamp_dirs(output), 1, zone)
         IN  [raised |-> "none",
              files |-> sorted_by_modified(records, Len(records)),
              printed |-> <<Line("Checking output directory: ")>>]

\* find_graphml_files(root_dir), given root_dir/output and the time zone:
\* the returned list (or the exception that left the function) and the
\* lines printed on the way.
find_graphml_files(output, zone) ==
    IF output.kind = "absent"
    THEN [raised |-> "none", files |-> <<>>,
          printed |-> <<Line("Output directory not found: ")>>]
    ELSE IF output.kind # "dir"
    THEN [raised |-> "NotADirectoryError", files |-> <<>>,
          printed |-> <<Line("Checking output directory: ")>>]
    ELSE IF timestamp_dirs(output) = <<>>
    THEN [raised |-> "none", files |-> <<>>,
          printed |-> <<Line("Checking output directory: "),
                        Line("No timestamp directories found.")>>]
    ELSE LET records == collect(output, timestamp_dirs(output), 1, zone)
         IN  [raised |-> "none",
              files |-> sorted_by_modified(records, Len(records)),
              printed |-> <<Line("Checking output directory: ")>>]

\* The remediation hint, lines 58-60.
NoFilesMessage ==
    <<Line("No GraphML files found. Make sure:"),
      Line("1. You've run the indexing process (python -m graphrag.index --root ./ragtest)"),
      Line("2. snapshots.graphml: yes is set in your settings.yaml file")>>

\* The lines of the table, lines 51-56: a header and one row per record.
table(files) ==
    <<Line("Found GraphML files:"), Line("Path Modified Size (KB)")>>
        \o [i \in DOMAIN files |-> [text |-> "row", record |-> files[i]]]

\* The script run from the command line, lines 43-60: what it prints and
\* the status it exits with (1, with a traceback, when an exception reaches
\* the top level).
main(output, zone) ==
    LET call == find_graphml_files(output, zone) IN
    IF call.raised # "none"
    THEN [exit_status |-> 1, traceback |-> call.raised, stdout |-> call.printed]
    ELSE IF call.files # <<>>
         THEN [exit_status |-> 0, traceback |-> "none",
               stdout |-> call.printed \o table(call.files)]
         ELSE [exit_status |-> 0, traceback |-> "none",
               stdout |-> call.printed \o NoFilesMessage]

\* The trees the locator is tried on: the files of one artifacts folder are
\* written by one indexing run and carry its time.
LocatorNames == {n \in FileNames : n.stem # "clustered_graph"}
FilesAt(names, t) ==
    [i \in DOMAIN names |-> [name |-> names[i].name, mtime |-> t, size |-> 2048]]
LocatorEntries ==
    {[is_dir |-> TRUE, mtime |-> t, artifacts |-> [exists |-> TRUE, files |-> FilesAt(l, t)]] :
         t \in 0..MaxMtime, l \in Listings([name : LocatorNames])}
        \cup {[is_dir |-> TRUE, mtime |-> 0, artifacts |-> NoArtifacts],
              [is_dir |-> FALSE, mtime |-> 0, artifacts |-> NoArtifacts]}

NotSearched == [raised |-> "not run", files |-> <<>>, printed |-> <<>>]
NotStarted == [exit_status |-> -1, traceback |-> "not run", stdout |-> <<>>]

LocatorInit ==
    /\ IsTree(tree, LocatorEntries)
    /\ tz \in TimeZones
    /\ found = NotSearched
    /\ cli = NotStarted

LocatorIdle ==
    /\ tz = FixedZone
    /\ found = NotSearched
    /\ cli = NotStarted

\* One run of the script: main calls find_graphml_files(args.root) and
\* prints what it returned.
RunCli ==
    /\ cli = NotStarted
    /\ found' = find_graphml_files(tree, tz)
    /\ cli' = main(tree, tz)
    /\ UNCHANGED <<tree, tz>>

----------------------------------------------------------------------------
(* The sidebar configuration, lines 23-27 *)

DefaultRoot == "./ragtest"
Roots == {DefaultRoot, "./other"}
DefaultLevel == 2
MaxLevel == 5
\* the slider positions the model moves between (within min_value..max_value)
Levels == {DefaultLevel, MaxLevel}
DefaultResponseType == "Multiple Paragraphs"
ResponseTypes == {DefaultResponseType, "Single Paragraph"}

ConfigInit ==
    /\ root_dir = DefaultRoot
    /\ community_level = DefaultLevel
    /\ response_type = DefaultResponseType

----------------------------------------------------------------------------
(* The query pane, lines 170-192, and the memoization of run_graphrag_query *)

Queries == {"who"}
Methods == {"global", "local"}

\* The command line of the external process, lines 34-35.
Argv(query, method) ==
    <<"python", "-m", "graphrag.query", "--root", root_dir, "--method", method,
      "--community_level", ToString(community_level),
      "--response_type", response_type, query>>

\* What the external engine does for a command line in its current state: its
\* answer depends on every argument and on the engine's own state.
EngineOutcome(argv, eng) ==
    IF eng.exit = 0
    THEN [returncode |-> 0,
          stdout |-> <<"answer", ToString(eng.version)>> \o argv,
          stderr |-> <<>>]
    ELSE [returncode |-> eng.exit,
          stdout |-> <<>>,
          stderr |-> <<"failure", ToString(eng.version)>> \o argv]

\* st.cache_data on run_graphrag_query(query, method): the key is the
\* function and its arguments; the globals the body reads are not part of it.
CacheKey(query, method) == <<query, method>>

NoResponse == [kind |-> "none", text |-> <<>>]
NoSubmit == [query |-> "", method |-> "", hit |-> FALSE, argv |-> <<>>]

QPaneInit ==
    /\ engine = [version |-> 0, exit |-> 0]
    /\ query_cache = [k \in {} |-> <<>>]
    /\ stored_under = [k \in {} |-> <<>>]
    /\ response = NoResponse
    /\ last_submit = NoSubmit
    /\ run_parity = 0

\* The query pane in a script run in which Submit Query was not clicked:
\* nothing of a response is drawn.
RerunWithoutSubmit ==
    /\ response' = NoResponse
    /\ last_submit' = NoSubmit
    /\ UNCHANGED <<query_cache, stored_under, run_parity>>

\* The value the memoized call run_graphrag_query(query, method) returns and
\* whether the store served it.
CachedCall(query, method) ==
    LET key == CacheKey(query, method)
        hit == key \in DOMAIN query_cache
        fresh == run_graphrag_query(EngineOutcome(Argv(query, method), engine))
    IN  [hit |-> hit,
         value |-> IF hit THEN query_cache[key] ELSE fresh.text,
         raised |-> IF hit THEN "none" ELSE fresh.raised]

\* if st.button("Submit Query"), lines 185-192
SubmitClicked(query, method) ==
    /\ run_parity' = 1 - run_parity
    /\ IF query = ""
       THEN /\ response' = [kind |-> "warning", text |-> <<"Please enter a query to search.">>]
            /\ last_submit' = NoSubmit
            /\ UNCHANGED <<query_cache, stored_under>>
       ELSE LET key == CacheKey(query, method)
                call == CachedCall(query, method)
                keys == DOMAIN query_cache \cup {key}
            IN  /\ response' = [kind |-> "response", text |-> call.value]
                /\ last_submit' = [query |-> query, method |-> method,
                                   hit |-> call.hit, argv |-> Argv(query, method)]
                /\ query_cache' =
                       [k \in keys |-> IF k = key THEN call.value ELSE query_cache[k]]
                /\ stored_under' =
                       [k \in keys |->
                           IF k = key /\ ~call.hit
                           THEN Argv(query, method)
                           ELSE stored_under[k]]

----------------------------------------------------------------------------
(* The visualization pane, lines 194-235, and the memoization of
   find_latest_graphml and visualize_graph *)

\* The graphs the indexer exports in a session.
SampleGraph == [nodes |-> <<"c1", "c2">>, edges |-> <<<<1, 2>>>>]
ExportedGraphs == {SampleGraph, NullGraph}

\* os.path.exists(path) and the graph the file holds
FileAt(path) ==
    LET output == fs[path.root]
        files == output.entries[path.ts].artifacts.files
    IN  IF /\ output.kind = "dir"
           /\ path.ts \in DOMAIN output.entries
           /\ output.entries[path.ts].artifacts.exists
           /\ \E k \in DOMAIN files : files[k].name = path.name
        THEN [exists |-> TRUE,
              graph |-> files[CHOOSE k \in DOMAIN files : files[k].name = path.name].graph]
        ELSE MissingFile

NotLoaded == [set |-> FALSE, path |-> NoPath]
NoLoad == [clicked |-> FALSE, hit |-> FALSE, root |-> ""]
NoStats == [nodes |-> 0, edges |-> 0]
InfoPane == [load |-> "none", view |-> "info", exc |-> "", missing |-> FALSE,
             stats |-> NoStats]

VPaneInit ==
    /\ fs = [r \in Roots |-> AbsentOutput]
    /\ locate_cache = [cached |-> FALSE, value |-> NotLooked]
    /\ located_under = ""
    /\ viz_cache = [k \in {} |-> NotRendered]
    /\ session_state = NotLoaded
    /\ pane = InfoPane
    /\ last_load = NoLoad

\* The visualization pane in one script run under root directory `root`,
\* with or without a click on Load/Refresh Graph.
\*  - lines 198-205: the memoized find_latest_graphml() takes no argument,
\*    so its store holds one entry, whatever root_dir is;
\*  - lines 208-235: the memoized visualize_graph(path) is keyed by the
\*    path; a call that raises stores nothing; the statistics and the
\*    download read the file again.
\* pane.missing records that the file session_state names was not on disk
\* during the run.  The count of connected components is not modelled.
VizPanePass(root, clicked) ==
    LET lookup == IF locate_cache.cached THEN locate_cache.value
                  ELSE find_latest_graphml(root, fs[root])
        stores == clicked /\ ~locate_cache.cached /\ lookup.kind # "raised"
        load == IF ~clicked THEN "none"
                ELSE IF lookup.kind = "path" THEN "success"
                ELSE IF lookup.kind = "none" THEN "error"
                ELSE "raised"
        state == IF load = "success" THEN [set |-> TRUE, path |-> lookup.path]
                 ELSE session_state
        file == FileAt(state.path)
        hit == state.path \in DOMAIN viz_cache
    IN  /\ locate_cache' = IF stores THEN [cached |-> TRUE, value |-> lookup]
                           ELSE locate_cache
        /\ located_under' = IF stores THEN root ELSE located_under
        /\ last_load' = [clicked |-> clicked, hit |-> clicked /\ locate_cache.cached,
                         root |-> IF clicked THEN root ELSE ""]
        /\ session_state' = state
        /\ IF load = "raised"
           THEN /\ pane' = [load |-> "none", view |-> "exception", exc |-> lookup.exc,
                            missing |-> FALSE, stats |-> NoStats]
                /\ UNCHANGED viz_cache
           ELSE IF ~state.set
           THEN /\ pane' = [InfoPane EXCEPT !.load = load]
                /\ UNCHANGED viz_cache
           ELSE \E communities \in Enumerations(communities_of(file.graph)) :
                  LET fig == IF hit THEN viz_cache[state.path]
                             ELSE visualize_graph(state.path, file, communities)
                      paths == DOMAIN viz_cache \cup {state.path}
                  IN  /\ viz_cache' =
                             IF hit \/ fig.kind = "raised" THEN viz_cache
                             ELSE [k \in paths |->
                                      IF k = state.path THEN fig ELSE viz_cache[k]]
                      /\ pane' =
                             IF fig.kind = "raised"
                             THEN [load |-> load, view |-> "exception", exc |-> fig.exc,
                                   missing |-> ~file.exists, stats |-> NoStats]
                             ELSE IF fig.kind = "none"
                             THEN [load |-> load, view |-> "failed", exc |-> "",
                                   missing |-> ~file.exists, stats |-> NoStats]
                             \* line 215: nx.read_graphml(path) on a file that is gone
                             ELSE IF ~file.exists
                             THEN [load |-> load, view |-> "exception",
                                   exc |-> "FileNotFoundError",
                                   missing |-> TRUE, stats |-> NoStats]
                             ELSE [load |-> load, view |-> "chart", exc |-> "",
                                   missing |-> FALSE,
                                   stats |-> [nodes |-> Len(file.graph.nodes),
                                              edges |-> Len(file.graph.edges)]]

----------------------------------------------------------------------------
(* The script runs of one session: every interaction reruns the whole
   script, both panes included *)

\* the sidebar's Root Directory is edited
SetRootDir(r) ==
    /\ r # root_dir
    /\ root_dir' = r
    /\ UNCHANGED <<community_level, response_type, engine, fs>>
    /\ RerunWithoutSubmit
    /\ VizPanePass(r, FALSE)

\* the sidebar's Community Level slider is moved
SetCommunityLevel(l) ==
    /\ l # community_level
    /\ community_level' = l
    /\ UNCHANGED <<root_dir, response_type, engine, fs>>
    /\ RerunWithoutSubmit
    /\ VizPanePass(root_dir, FALSE)

\* the sidebar's Response Type is edited
SetResponseType(t) ==
    /\ t # response_type
    /\ response_type' = t
    /\ UNCHANGED <<root_dir, community_level, engine, fs>>
    /\ RerunWithoutSubmit
    /\ VizPanePass(root_dir, FALSE)

\* Submit Query is clicked with `query` in the text area and `method` selected
SubmitQuery(query, method) ==
    /\ UNCHANGED <<config_vars, engine, fs>>
    /\ SubmitClicked(query, method)
    /\ VizPanePass(root_dir, FALSE)

\* Load/Refresh Graph is clicked
LoadRefreshGraph ==
    /\ UNCHANGED <<config_vars, engine, fs>>
    /\ RerunWithoutSubmit
    /\ VizPanePass(root_dir, TRUE)

\* any other interaction (the download button, a widget of the query pane)
Rerun ==
    /\ UNCHANGED <<config_vars, engine, fs>>
    /\ RerunWithoutSubmit
    /\ VizPanePass(root_dir, FALSE)

app_vars ==
    <<query_cache, stored_under, response, last_submit, run_parity,
      locate_cache, located_under, viz_cache, session_state, pane, last_load>>

\* The external engine's state changes (its index is rebuilt, it starts or
\* stops failing): not an operation of the application.
EngineChanges(exit) ==
    /\ engine.version < MaxEngineChanges
    /\ engine' = [version |-> engine.version + 1, exit |-> exit]
    /\ UNCHANGED <<config_vars, fs, app_vars>>

\* The external indexer writes a new timestamp folder under `root`, newer
\* than the others, with the summarized export of `graph` in it.
IndexerRuns(root, graph) ==
    LET entries == fs[root].entries
        t == Len(entries) + 1
        export == [name |-> SummarizedGraph, mtime |-> t, size |-> 2048, graph |-> graph]
        folder == [is_dir |-> TRUE, mtime |-> t,
                   artifacts |-> [exists |-> TRUE, files |-> <<export>>]]
    IN  /\ Len(entries) < MaxIndexRuns
        /\ fs' = [fs EXCEPT ![root] = [kind |-> "dir", entries |-> Append(entries, folder)]]
        /\ UNCHANGED <<config_vars, engine, app_vars>>

\* An export file is deleted from disk.
FileVanishes(root, ts) ==
    /\ ts \in DOMAIN fs[root].entries
    /\ fs[root].entries[ts].artifacts.files # <<>>
    /\ fs' = [fs EXCEPT ![root].entries[ts].artifacts.files = <<>>]
    /\ UNCHANGED <<config_vars, engine, app_vars>>

----------------------------------------------------------------------------
(* Specifications *)

SessionInit == ConfigInit /\ QPaneInit /\ VPaneInit
SessionOff == UNCHANGED <<config_vars, qpane_vars, vpane_vars>>
PureIdle == UNCHANGED <<qexec_vars, render_vars, latest_vars, locator_vars>>

\* run_graphrag_query on every process outcome
QuerySpecInit == QExecInit /\ SessionInit /\ RenderIdle /\ LatestIdle /\ LocatorIdle
QuerySpecNext ==
    RunQuery /\ SessionOff /\ UNCHANGED <<render_vars, latest_vars, locator_vars>>
QuerySpec == QuerySpecInit /\ [][QuerySpecNext]_vars

\* visualize_graph on every path and graph
RenderSpecInit == QExecIdle /\ SessionInit /\ RenderInit /\ LatestIdle /\ LocatorIdle
RenderSpecNext ==
    Render /\ SessionOff /\ UNCHANGED <<qexec_vars, latest_vars, locator_vars>>
RenderSpec == RenderSpecInit /\ [][RenderSpecNext]_vars

\* find_latest_graphml on every directory tree
LatestSpecInit == QExecIdle /\ SessionInit /\ RenderIdle /\ LatestInit /\ LocatorIdle
LatestSpecNext ==
    FindLatest /\ SessionOff /\ UNCHANGED <<qexec_vars, render_vars, locator_vars>>
LatestSpec == LatestSpecInit /\ [][LatestSpecNext]_vars

\* check_graphml.py on every directory tree and time zone
LocatorSpecInit ==
    QExecIdle /\ SessionInit /\ RenderIdle /\ latest = NotLooked /\ LocatorInit
LocatorSpecNext ==
    RunCli /\ SessionOff /\ UNCHANGED <<qexec_vars, render_vars, latest>>
LocatorSpec == LocatorSpecInit /\ [][LocatorSpecNext]_vars

\* one session of the explorer in which the user works in the query pane
Init == QExecIdle /\ SessionInit /\ RenderIdle /\ LatestIdle /\ LocatorIdle
Next ==
    \/ \E r \in Roots : SetRootDir(r) /\ PureIdle
    \/ \E l \in Levels : SetCommunityLevel(l) /\ PureIdle
    \/ \E t \in ResponseTypes : SetResponseType(t) /\ PureIdle
    \/ \E q \in Queries \cup {""}, m \in Methods : SubmitQuery(q, m) /\ PureIdle
    \/ \E x \in {0, 1} : EngineChanges(x) /\ PureIdle
Spec == Init /\ [][Next]_vars

\* the same session with a user who keeps submitting every query
FairSpec ==
    /\ Spec
    /\ \A q \in Queries, m \in Methods :
           WF_vars(SubmitQuery(q, m) /\ PureIdle)

\* one session of the explorer in which the user works in the visualization
\* pane while the indexer writes and files are deleted
VizNext ==
    \/ \E r \in Roots : SetRootDir(r) /\ PureIdle
    \/ LoadRefreshGraph /\ PureIdle
    \/ Rerun /\ PureIdle
    \/ \E r \in Roots, g \in ExportedGraphs : IndexerRuns(r, g) /\ PureIdle
    \/ \E r \in Roots, ts \in 1..MaxIndexRuns : FileVanishes(r, ts) /\ PureIdle
VizSpec == Init /\ [][VizNext]_vars

----------------------------------------------------------------------------
(* Claims about the query executor and the query pane *)

\* What the engine would answer now to a command line.
FreshFor(argv) == run_graphrag_query(EngineOutcome(argv, engine)).text

Served == last_submit # NoSubmit /\ last_submit.hit

\* C1: a result is served from the memoized store only if the query text,
\* the method and the configuration (root directory, community level,
\* response type) all equal those of the invocation that produced the
\* stored result; a submit under a different configuration re-invokes the
\* engine with the current one.
C1_ServedOnlyUnderSameConfig ==
    Served =>
        stored_under[CacheKey(last_submit.query, last_submit.method)]
            = last_submit.argv

Masked(q, m) ==
    /\ CacheKey(q, m) \in DOMAIN query_cache
    /\ query_cache[CacheKey(q, m)] # FreshFor(stored_under[CacheKey(q, m)])

DisplaysFresh(q, m) ==
    /\ last_submit # NoSubmit
    /\ last_submit.query = q
    /\ last_submit.method = m
    /\ response.text = FreshFor(last_submit.argv)

\* C2: memoization does not mask an updated external state indefinitely:
\* when the engine's answer for a query and method has changed, repeatedly
\* submitting that query and method eventually displays the engine's new
\* output.
C2_StaleResultEventuallyReplaced ==
    \A q \in Queries, m \in Methods : Masked(q, m) ~> DisplaysFresh(q, m)

AllWhitespace(s) == \A i \in 1..Len(s) : s[i] \in Whitespace

\* C7: on a fresh invocation the result is a total function of the process
\* outcome: a non-zero exit yields 'Error: ' followed by the captured
\* stderr and does not raise; a zero exit with empty or whitespace-only
\* stdout yields exactly the fixed no-results message; a zero exit with any
\* other stdout yields that stdout verbatim.
C7_ResultFollowsProcessOutcome ==
    answer # NotRun =>
        /\ answer.raised = "none"
        /\ proc.returncode # 0 => answer.text = ErrorMarker \o proc.stderr
        /\ (proc.returncode = 0 /\ AllWhitespace(proc.stdout))
               => answer.text = NoResultsMessage
        /\ (proc.returncode = 0 /\ ~AllWhitespace(proc.stdout))
               => answer.text = proc.stdout

\* a zero exit whose stdout is whitespace only has been answered
C7_Witness ==
    /\ answer # NotRun
    /\ proc.returncode = 0
    /\ proc.stdout = <<" ", "\n">>
    /\ answer.text = NoResultsMessage

----------------------------------------------------------------------------
(* Claims about the renderer *)

Rendered == render_out # NotRendered
GivenGraph == render_in.path # NoPath /\ render_in.file.exists
InputGraph == render_in.file.graph

\* C5: given an existing graph-export file whose graph has zero nodes,
\* visualize_graph returns no figure or a figure with empty edge and node
\* traces; it does not raise.
C5_NullGraphDoesNotRaise ==
    (Rendered /\ GivenGraph /\ Len(InputGraph.nodes) = 0) =>
        \/ render_out.kind = "none"
        \/ /\ render_out.kind = "figure"
           /\ render_out.fig.x_nodes = <<>>
           /\ render_out.fig.x_edges = <<>>

SomeNodeHasCommunity == \E i \in DOMAIN InputGraph.nodes : InputGraph.nodes[i] # NoAttr

\* C6: nodes are coloured by community index (legend 'Community') if and
\* only if at least one node carries a 'community' attribute, whichever
\* position it has in the enumeration; by degree (legend 'Node Degree')
\* only when no node carries it; in community mode distinct community
\* values get distinct indices.
C6_CommunityModeIffAnyNodeHasIt ==
    (Rendered /\ GivenGraph /\ Len(InputGraph.nodes) > 0) =>
        /\ render_out.kind = "figure"
        /\ render_out.fig.colorbar_title = "Community" <=> SomeNodeHasCommunity
        /\ render_out.fig.colorbar_title = "Node Degree" <=> ~SomeNodeHasCommunity
        /\ render_out.fig.colorbar_title = "Community" =>
               \A c, d \in communities_of(InputGraph) :
                   c # d => community_to_int(render_out.fig.community_to_int, c)
                              # community_to_int(render_out.fig.community_to_int, d)

----------------------------------------------------------------------------
(* Claims about find_latest_graphml *)

TimestampDirs == {i \in DOMAIN tree.entries : tree.entries[i].is_dir}
IsLatest(i) ==
    /\ i \in TimestampDirs
    /\ \A j \in TimestampDirs : tree.entries[j].mtime <= tree.entries[i].mtime
HasFile(i, name) ==
    /\ tree.entries[i].artifacts.exists
    /\ \E k \in DOMAIN tree.entries[i].artifacts.files :
           tree.entries[i].artifacts.files[k].name = name
\* the first *.graphml name of entry i's artifacts folder, if `name` is it
FirstGraphml(i, name) ==
    /\ tree.entries[i].artifacts.exists
    /\ \E k \in DOMAIN tree.entries[i].artifacts.files :
           /\ tree.entries[i].artifacts.files[k].name = name
           /\ name.ext = "graphml"
           /\ \A h \in 1..(k - 1) : tree.entries[i].artifacts.files[h].name.ext # "graphml"
HasGraphml(i) == \E name \in FileNames : FirstGraphml(i, name)

----------------------------------------------------------------------------
(* Claims about check_graphml.py *)

GraphmlFilesOf(i) ==
    {k \in DOMAIN tree.entries[i].artifacts.files :
        tree.entries[i].artifacts.files[k].name.ext = "graphml"}

\* every entry of root/output is a timestamp folder whose artifacts
\* subfolder holds exactly one *.graphml file
OneExportPerFolder ==
    /\ tree.kind = "dir"
    /\ \A i \in DOMAIN tree.entries :
           /\ tree.entries[i].is_dir
           /\ tree.entries[i].artifacts.exists
           /\ Cardinality(GraphmlFilesOf(i)) = 1

\* the modification time of the file a record describes
MtimeOf(record) ==
    LET files == tree.entries[record.timestamp_dir].artifacts.files
    IN  files[CHOOSE k \in DOMAIN files : files[k].name = record.path.name].mtime

\* C9: with N timestamp folders, each holding exactly one *.graphml file,
\* find_graphml_files returns exactly N records ordered by modification
\* time descending; records whose modification times are equal at second
\* precision keep their discovery order.
C9_NewestFirst ==
    (found # NotSearched /\ OneExportPerFolder) =>
        /\ found.raised = "none"
        /\ Len(found.files) = Len(tree.entries)
        /\ \A a, b \in DOMAIN found.files :
               a < b =>
                   LET ma == MtimeOf(found.files[a]) \div TicksPerSecond
                       mb == MtimeOf(found.files[b]) \div TicksPerSecond
                   IN  /\ ma >= mb
                       /\ ma = mb =>
                              found.files[a].timestamp_dir < found.files[b].timestamp_dir

NoSubdirectory ==
    \/ tree.kind = "absent"
    \/ tree.kind = "dir" /\ \A i \in DOMAIN tree.entries : ~tree.entries[i].is_dir

\* the last n lines of a printout
LastLines(out, n) == SubSeq(out, Len(out) - n + 1, Len(out))

----------------------------------------------------------------------------
(* Claims about the visualization pane *)

\* C3: the memoized result of find_latest_graphml is keyed on the root
\* directory: a Load/Refresh performed under root directory R yields the
\* lookup result for R, never an answer that was computed and stored for a
\* different root directory.
C3_LookupIsForCurrentRoot ==
    last_load.clicked =>
        /\ last_load.root = root_dir
        /\ located_under = root_dir
        /\ pane.load = "success" => session_state.path.root = root_dir

\* C4: if the graph-export file disappears after it was located, every later
\* pass of the visualization pane ends in a displayed error banner and never
\* in an uncaught exception.
C4_VanishedFileGivesBanner ==
    (session_state.set /\ pane.missing) =>
        /\ pane.view = "failed"
        /\ pane.exc = ""

====
